---------------------------- MODULE Spec2Model ----------------------------
(***************************************************************************)
(* Model of src/main.py (Travel Assistant API): module initialisation,     *)
(* the lifespan of the shared maps connection, POST /query and             *)
(* POST /create-payment-intent.                                            *)
(*                                                                         *)
(* Text is modelled as a sequence of one-character strings, so that line   *)
(* breaks inside a message are visible to the formatting code.             *)
(* The agent runner, the payment SDK and the maps subprocess are external: *)
(* each call into them is a nondeterministic choice among its outcomes     *)
(* (returns / raises), made at the await point where the handler yields.   *)
(***************************************************************************)
EXTENDS Integers, Sequences, FiniteSets, TLC

\* ------------------------------------------------------------------ bounds
NumTriggers == 2      \* lifespan entries that may race
NumRequests == 2      \* concurrent POST /query requests
NumPayments == 1      \* POST /create-payment-intent requests
MaxCalls    == 2      \* tool invocations in one orchestrator run
MaxHist     == 2      \* history entries given to the context builder
MaxStrLen   == 2      \* characters of a message content given to it

Triggers == 1..NumTriggers
Requests == 1..NumRequests
Payments == 1..NumPayments

None == "None"       \* Python's None, where a string or handle is expected
NoTask == 0          \* no trigger holds the lock
NL   == "\n"

\* ------------------------------------------------------------------- state
VARIABLES
    env,            \* process environment: which keys are set
    stripe_api_key, \* stripe.api_key (main.py:23)
    maps_server,    \* _maps_server (main.py:38): None or the handle
    server_lock,    \* _server_lock (main.py:39): None or the holding trigger
    server_state,   \* state of the MCPServerStdio object behind the handle
    constructed,    \* number of MCPServerStdio objects constructed so far
    connect_calls,  \* number of connect() calls made so far
    lpc,            \* lifespan: position of each startup trigger
    req,            \* /query: the locals of each request's handler
    pay,            \* /create-payment-intent: outcome of each request
    history,        \* the history formatting on its own: its input
    conversation_context, \* the history formatting on its own: its output
    cpc             \* the history formatting on its own: position

vars == <<env, stripe_api_key, maps_server, server_lock, server_state,
          constructed, connect_calls, lpc, req, pay,
          history, conversation_context, cpc>>

globals == <<env, stripe_api_key, maps_server, server_lock, server_state,
             constructed, connect_calls>>

\* ------------------------------------------------------------------- text
Chars == {"x", NL}

RECURSIVE StringsUpTo(_)
StringsUpTo(n) ==
    IF n = 0 THEN {<<>>}
    ELSE LET S == StringsUpTo(n - 1)
         IN  S \cup {Append(s, c) : s \in {t \in S : Len(t) = n - 1}, c \in Chars}

Roles == {<<"u">>, <<"a">>}

\* ConversationMessage (role and content both required)
ConversationMessage == [role : Roles, content : StringsUpTo(MaxStrLen)]

RECURSIVE SeqsUpTo(_, _)
SeqsUpTo(S, n) ==
    IF n = 0 THEN {<<>>}
    ELSE LET T == SeqsUpTo(S, n - 1)
         IN  T \cup {Append(t, e) : t \in {u \in T : Len(u) = n - 1}, e \in S}

\* "\nPrevious conversation:\n"
Header ==
    <<NL, "P", "r", "e", "v", "i", "o", "u", "s", " ", "c", "o", "n", "v",
      "e", "r", "s", "a", "t", "i", "o", "n", ":", NL>>

\* (variant: the entry is not terminated by a line break)
FormatMessageNoBreak(msg) == msg.role \o <<":", " ">> \o msg.content

\* f"{msg.role}: {msg.content}\n"
FormatMessage(msg) == msg.role \o <<":", " ">> \o msg.content \o <<NL>>

RECURSIVE AppendMessages(_, _)
AppendMessages(acc, msgs) ==
    IF msgs = <<>> THEN acc
    ELSE AppendMessages(acc \o FormatMessage(Head(msgs)), Tail(msgs))

\* process_query, "Format conversation history for the agent"
ConversationContext(hist) ==
    IF hist = <<>> THEN <<>> ELSE AppendMessages(Header, hist)

\* ------------------------------------------------------- module initialisation
\* stripe.api_key = os.getenv("STRIPE_SECRET_KEY"): None when the variable is
\* unset; nothing checks it, and StripeAgentToolkit is built with the same value.
ModuleInitStripeKey(e) == IF e.STRIPE_SECRET_KEY THEN "sk_key" ELSE None

LifespanInit ==
    /\ env \in [STRIPE_SECRET_KEY : BOOLEAN, GOOGLE_MAPS_API_KEY : BOOLEAN]
    /\ stripe_api_key = ModuleInitStripeKey(env)
    /\ maps_server = None
    /\ server_lock = NoTask
    /\ server_state = "absent"
    /\ constructed = 0
    /\ connect_calls = 0
    /\ lpc = [t \in Triggers |-> "idle"]

\* validation: what the framework's check of the body said ("none" before it)
IdleRequest ==
    [validation |-> "none", orch |-> "idle", synth |-> "idle",
     context |-> <<>>, mcp_server |-> None,
     trace |-> <<>>, synth_input |-> <<>>, conversation_id |-> None,
     result |-> [status |-> 0]]

\* charged: what was submitted to the provider when it returned an intent
NoPayment == [validation |-> "none", result |-> [status |-> 0], charged |-> <<>>]

Init ==
    /\ LifespanInit
    /\ req = [r \in Requests |-> IdleRequest]
    /\ pay = [p \in Payments |-> NoPayment]
    /\ history = <<>>
    /\ conversation_context = <<>>
    /\ cpc = "off"

Serving == \E t \in Triggers : lpc[t] = "serving"

InFlight(r) == req[r].orch = "running" \/ req[r].synth = "running"

\* ------------------------------------------------------------------ lifespan
\* (variant: the lock is not taken into account)
LockNotTaken(t) == TRUE

\* async with _server_lock: the trigger enters once the lock is free
LockFree(t) == server_lock = NoTask

lifespan_acquire(t) ==
    /\ lpc[t] = "idle"
    /\ LockFree(t)
    /\ server_lock' = t
    /\ lpc' = [lpc EXCEPT ![t] = "locked"]
    /\ UNCHANGED <<env, stripe_api_key, maps_server, server_state, constructed,
                   connect_calls, req, pay, history,
                   conversation_context, cpc>>

\* if _maps_server is None: already initialised, leave the lock and yield
lifespan_skip(t) ==
    /\ lpc[t] = "locked"
    /\ maps_server # None
    /\ server_lock' = NoTask
    /\ lpc' = [lpc EXCEPT ![t] = "serving"]
    /\ UNCHANGED <<env, stripe_api_key, maps_server, server_state, constructed,
                   connect_calls, req, pay, history,
                   conversation_context, cpc>>

\* _maps_server = MCPServerStdio(...); await _maps_server.connect()
\* (the handle is assigned before connect() is awaited)
lifespan_construct(t) ==
    /\ lpc[t] = "locked"
    /\ maps_server = None
    /\ maps_server' = "maps"
    /\ server_state' = "new"
    /\ constructed' = constructed + 1
    /\ connect_calls' = connect_calls + 1
    /\ lpc' = [lpc EXCEPT ![t] = "connecting"]
    /\ UNCHANGED <<env, stripe_api_key, server_lock, req, pay,
                   history, conversation_context, cpc>>

\* MCPServerStdio(...) raises on an env entry that is None: no object is
\* constructed, the lock is left, the exception is logged and re-raised
lifespan_construct_raises(t) ==
    /\ lpc[t] = "locked"
    /\ maps_server = None
    /\ ~env.GOOGLE_MAPS_API_KEY
    /\ server_lock' = NoTask
    /\ lpc' = [lpc EXCEPT ![t] = "failed"]
    /\ UNCHANGED <<env, stripe_api_key, maps_server, server_state, constructed,
                   connect_calls, req, pay, history,
                   conversation_context, cpc>>

\* connect() returns: the lock is left and the lifespan yields.  The maps
\* subprocess exits at once without its API key, so connect() cannot succeed
\* then.
connect_ok(t) ==
    /\ lpc[t] = "connecting"
    /\ env.GOOGLE_MAPS_API_KEY
    /\ server_state' = "connected"
    /\ server_lock' = NoTask
    /\ lpc' = [lpc EXCEPT ![t] = "serving"]
    /\ UNCHANGED <<env, stripe_api_key, maps_server, constructed, connect_calls, req, pay, history, conversation_context, cpc>>

\* connect() raises: the lock is left, the exception is logged and re-raised;
\* _maps_server keeps the handle that failed to connect
connect_fail(t) ==
    /\ lpc[t] = "connecting"
    /\ server_state' = "failed"
    /\ server_lock' = NoTask
    /\ lpc' = [lpc EXCEPT ![t] = "failed"]
    /\ UNCHANGED <<env, stripe_api_key, maps_server, constructed, connect_calls, req, pay, history, conversation_context, cpc>>

\* after the yield: if _maps_server: await _maps_server.disconnect()
\* (the server has drained its requests before it runs the shutdown part)
lifespan_shutdown(t) ==
    /\ lpc[t] = "serving"
    /\ \A r \in Requests : ~InFlight(r)
    /\ lpc' = [lpc EXCEPT ![t] = IF maps_server # None THEN "disconnecting"
                                                        ELSE "stopped"]
    /\ UNCHANGED <<env, stripe_api_key, maps_server, server_lock, server_state,
                   constructed, connect_calls, req, pay, history,
                   conversation_context, cpc>>

\* disconnect() returns, or raises and the error is logged and swallowed
disconnect_done(t, ok) ==
    /\ lpc[t] = "disconnecting"
    /\ server_state' = IF ok THEN "disconnected" ELSE server_state
    /\ lpc' = [lpc EXCEPT ![t] = "stopped"]
    /\ UNCHANGED <<env, stripe_api_key, maps_server, server_lock, constructed,
                   connect_calls, req, pay, history,
                   conversation_context, cpc>>

Lifespan(t) ==
    \/ lifespan_acquire(t)
    \/ lifespan_skip(t)
    \/ lifespan_construct(t)
    \/ lifespan_construct_raises(t)
    \/ connect_ok(t)
    \/ connect_fail(t)
    \/ lifespan_shutdown(t)
    \/ \E ok \in BOOLEAN : disconnect_done(t, ok)

NextLifespan == \E t \in Triggers : Lifespan(t)

SpecLifespan == Init /\ [][NextLifespan]_vars

\* --------------------------------------------------------------- POST /query
\* A request body is a record holding the fields the client sent.
QueryText == <<"q">>

\* history: default_factory=list
History(body) == IF "history" \in DOMAIN body THEN body.history ELSE <<>>

\* conversation_id: default=None
ConversationId(body) ==
    IF "conversation_id" \in DOMAIN body THEN body.conversation_id ELSE None

\* ChatQuery / ConversationMessage: query, role and content are required (...)
ChatQueryValid(body) ==
    /\ "query" \in DOMAIN body
    /\ \A i \in 1..Len(History(body)) :
           {"role", "content"} \subseteq DOMAIN History(body)[i]

QueryBodies ==
    { [query |-> QueryText],
      [query |-> QueryText, conversation_id |-> "c1",
       history |-> <<[role |-> <<"u">>, content |-> <<"x">>]>>],
      [history |-> <<>>],
      [query |-> QueryText, history |-> <<[role |-> <<"u">>]>>] }

Tools == {"get_destination_info", "create_travel_products"}

\* One tool invocation made by the orchestrator run, failed or not
ToolInvocation(tool, failed) == [tool |-> tool, error |-> failed]

\* RunResult.to_input_list(): the original input followed by the new items
to_input_list(input, new_items) == <<[input |-> input]>> \o new_items

\* Response(response=synthesizer_result.final_output, trace_id=trace_id,
\*          conversation_id=query.conversation_id)
Response(final_output, trace_id, conversation_id) ==
    [status |-> 200, response |-> final_output, trace_id |-> trace_id,
     conversation_id |-> conversation_id]

\* except Exception as e: raise HTTPException(status_code=500, detail=str(e))
HTTPException500(stage) == [status |-> 500, detail |-> stage]

\* the framework's answer to a body that fails validation; the handler is
\* not called
ValidationRejected == [status |-> 422]

\* create_maps_agent: mcp_servers=[_maps_server]
create_maps_agent(context) == [instructions |-> context, mcp_server |-> maps_server]

\* the handler up to its first await: context, agents, trace id, and the
\* orchestrator run is started
StartedRequest(q, body) ==
    LET ctx  == ConversationContext(History(body))
        maps == create_maps_agent(ctx)
    IN  [q EXCEPT !.validation = "passed",
                  !.orch = "running",
                  !.context = ctx,
                  !.mcp_server = maps.mcp_server,
                  !.conversation_id = ConversationId(body)]

\* the handler has returned or raised: its locals are gone; what stays of the
\* request is the workflow trace recorded under its trace id
Finished(q) == [IdleRequest EXCEPT !.validation = q.validation, !.trace = q.trace]

query_rejected(r, body) ==
    /\ Serving
    /\ req[r].validation = "none"
    /\ ~ChatQueryValid(body)
    /\ req' = [req EXCEPT ![r].validation = "failed",
                          ![r].result = ValidationRejected]
    /\ UNCHANGED <<globals, lpc, pay, history, conversation_context, cpc>>

\* (variant: the request sets up a maps connection of its own)
process_query_start_reconnects(r, body) ==
    /\ Serving
    /\ req[r].validation = "none"
    /\ ChatQueryValid(body)
    /\ req' = [req EXCEPT ![r] = StartedRequest(req[r], body)]
    /\ maps_server' = "maps"
    /\ server_state' = "new"
    /\ UNCHANGED <<env, stripe_api_key, server_lock, constructed, connect_calls,
                   lpc, pay, history, conversation_context, cpc>>

process_query_start(r, body) ==
    /\ Serving
    /\ req[r].validation = "none"
    /\ ChatQueryValid(body)
    /\ req' = [req EXCEPT ![r] = StartedRequest(req[r], body)]
    /\ UNCHANGED <<globals, lpc, pay, history, conversation_context, cpc>>

\* inside Runner.run(orchestrator_agent, query.query): the model calls one of
\* the two tools; a failed call is kept in the run's items
orchestrator_tool_call(r, tool, failed) ==
    /\ req[r].orch = "running"
    /\ Len(req[r].trace) < MaxCalls
    /\ req' = [req EXCEPT ![r].trace = Append(@, ToolInvocation(tool, failed))]
    /\ UNCHANGED <<globals, lpc, pay, history, conversation_context, cpc>>

\* (variant: the synthesizer is given the query alone)
AfterOrchestratorQueryOnly(q) ==
    [q EXCEPT !.orch = "done",
              !.synth = "running",
              !.synth_input = <<[input |-> QueryText]>>]

\* (variant: the handler gives up when the trace holds a failed invocation)
AfterOrchestratorAbortsOnError(q) ==
    IF \E i \in 1..Len(q.trace) : q.trace[i].error
    THEN [Finished(q) EXCEPT !.orch = "done",
                             !.result = HTTPException500("tool")]
    ELSE [q EXCEPT !.orch = "done",
                   !.synth = "running",
                   !.synth_input = to_input_list(QueryText, q.trace)]

\* the orchestrator run returns; the handler starts the synthesizer run on
\* orchestrator_result.to_input_list()
AfterOrchestrator(q) ==
    [q EXCEPT !.orch = "done",
              !.synth = "running",
              !.synth_input = to_input_list(QueryText, q.trace)]

orchestrator_returns(r) ==
    /\ req[r].orch = "running"
    /\ req' = [req EXCEPT ![r] = AfterOrchestrator(req[r])]
    /\ UNCHANGED <<globals, lpc, pay, history, conversation_context, cpc>>

\* (variant: what the orchestrator had produced is returned as the reply)
AfterOrchestratorRaisedPartial(q) ==
    [Finished(q) EXCEPT !.orch = "raised",
                        !.result = Response("orchestrator_output", 0,
                                            q.conversation_id)]

\* the orchestrator run raises: caught by the handler's except clause
AfterOrchestratorRaised(q) ==
    [Finished(q) EXCEPT !.orch = "raised",
                        !.result = HTTPException500("orchestrator")]

orchestrator_raises(r) ==
    /\ req[r].orch = "running"
    /\ req' = [req EXCEPT ![r] = AfterOrchestratorRaised(req[r])]
    /\ UNCHANGED <<globals, lpc, pay, history, conversation_context, cpc>>

\* the synthesizer run returns and the handler returns the Response
AfterSynthesizer(q, r) ==
    [Finished(q) EXCEPT !.orch = "done", !.synth = "done",
              !.result = Response("synthesizer_output", r, q.conversation_id)]

synthesizer_returns(r) ==
    /\ req[r].synth = "running"
    /\ req' = [req EXCEPT ![r] = AfterSynthesizer(req[r], r)]
    /\ UNCHANGED <<globals, lpc, pay, history, conversation_context, cpc>>

\* the synthesizer run raises: caught by the handler's except clause
AfterSynthesizerRaised(q) ==
    [Finished(q) EXCEPT !.orch = "done", !.synth = "raised",
                        !.result = HTTPException500("synthesizer")]

synthesizer_raises(r) ==
    /\ req[r].synth = "running"
    /\ req' = [req EXCEPT ![r] = AfterSynthesizerRaised(req[r])]
    /\ UNCHANGED <<globals, lpc, pay, history, conversation_context, cpc>>

Query(r) ==
    \/ \E body \in QueryBodies : query_rejected(r, body)
    \/ \E body \in QueryBodies : process_query_start(r, body)
    \/ \E tool \in Tools, failed \in BOOLEAN : orchestrator_tool_call(r, tool, failed)
    \/ orchestrator_returns(r)
    \/ orchestrator_raises(r)
    \/ synthesizer_returns(r)
    \/ synthesizer_raises(r)

NextQuery == \E r \in Requests : Query(r)

\* ------------------------------------------------ POST /create-payment-intent
\* An amount is a decimal number given in thousandths, or not finite (inf, nan:
\* the JSON parser and the float field accept both).  Binary rounding of the
\* float product is not modelled.
Amount(milli) == [finite |-> TRUE, milli |-> milli]
NotFinite == [finite |-> FALSE, milli |-> 0]

\* currency: default="mxn"
Currency(body) == IF "currency" \in DOMAIN body THEN body.currency ELSE "mxn"

\* PaymentRequest: amount, description and payment_method are required (...)
PaymentRequestValid(body) ==
    {"amount", "description", "payment_method"} \subseteq DOMAIN body

PaymentBodies ==
    { [amount |-> Amount(10500), description |-> "d", payment_method |-> "pm"],
      [amount |-> Amount(19999), currency |-> "usd", description |-> "d",
       payment_method |-> "pm"],
      [amount |-> NotFinite, description |-> "d", payment_method |-> "pm"],
      [amount |-> Amount(10500), description |-> "d"] }

\* int(request.amount * 100): truncation toward zero
ToCents(milli) ==
    IF milli >= 0 THEN (milli * 100) \div 1000 ELSE -((-milli * 100) \div 1000)

\* what stripe.PaymentIntent.create can do: return an intent, raise a
\* StripeError, raise anything else.  Without an API key the SDK raises its
\* AuthenticationError (a StripeError) before any request is sent.
ProviderOutcomes == {"intent", "StripeError", "Exception"}

PossibleOutcomes == IF stripe_api_key = None THEN {"StripeError"} ELSE ProviderOutcomes

PaymentResponse(success, payment_id, error) ==
    [status |-> 200, success |-> success, payment_id |-> payment_id,
     error |-> error]

\* (variant: only StripeError is caught)
PaymentResultUncaught(body, outcome) ==
    IF ~body.amount.finite
    THEN [status |-> 500]
    ELSE CASE outcome = "intent"      -> PaymentResponse(TRUE, "pi_1", None)
           [] outcome = "StripeError" -> PaymentResponse(FALSE, None, "stripe error")
           [] OTHER                   -> [status |-> 500]

\* the body of create_payment_intent: try / except StripeError / except Exception
PaymentResult(body, outcome) ==
    IF ~body.amount.finite
    THEN PaymentResponse(FALSE, None, "cannot convert float to integer")
    ELSE CASE outcome = "intent"      -> PaymentResponse(TRUE, "pi_1", None)
           [] outcome = "StripeError" -> PaymentResponse(FALSE, None, "stripe error")
           [] OTHER                   -> PaymentResponse(FALSE, None, "error")

\* amount=int(request.amount * 100), currency=request.currency
Charged(body, outcome) ==
    IF body.amount.finite /\ outcome = "intent"
    THEN <<ToCents(body.amount.milli), Currency(body)>>
    ELSE <<>>

payment_rejected(p, body) ==
    /\ Serving
    /\ pay[p].validation = "none"
    /\ ~PaymentRequestValid(body)
    /\ pay' = [pay EXCEPT ![p].validation = "failed",
                          ![p].result = ValidationRejected]
    /\ UNCHANGED <<globals, lpc, req, history, conversation_context, cpc>>

\* the handler has no await: it runs to its return in one step
create_payment_intent(p, body, outcome) ==
    /\ Serving
    /\ pay[p].validation = "none"
    /\ PaymentRequestValid(body)
    /\ outcome \in PossibleOutcomes
    /\ pay' = [pay EXCEPT ![p] = [validation |-> "passed",
                                  result |-> PaymentResult(body, outcome),
                                  charged |-> Charged(body, outcome)]]
    /\ UNCHANGED <<globals, lpc, req, history, conversation_context, cpc>>

Payment(p) ==
    \/ \E body \in PaymentBodies : payment_rejected(p, body)
    \/ \E body \in PaymentBodies, outcome \in ProviderOutcomes :
           create_payment_intent(p, body, outcome)

NextPayment == \E p \in Payments : Payment(p)

\* ------------------------------------------------------- the context builder
\* The history formatting of process_query on its own inputs
Histories == SeqsUpTo(ConversationMessage, MaxHist)

InitContext ==
    /\ LifespanInit
    /\ env = [STRIPE_SECRET_KEY |-> TRUE, GOOGLE_MAPS_API_KEY |-> TRUE]
    /\ req = [r \in Requests |-> IdleRequest]
    /\ pay = [p \in Payments |-> NoPayment]
    /\ history \in Histories
    /\ conversation_context = <<>>
    /\ cpc = "start"

format_history ==
    /\ cpc = "start"
    /\ conversation_context' = ConversationContext(history)
    /\ cpc' = "done"
    /\ UNCHANGED <<globals, lpc, req, pay, history>>

NextContext == format_history

\* ------------------------------------------------------------ specifications
Next == NextLifespan \/ NextQuery \/ NextPayment \/ NextContext

\* the whole process
Spec == Init /\ [][Next]_vars

\* the lifespan and the /query requests
SpecQuery == Init /\ [][NextLifespan \/ NextQuery]_vars

\* the lifespan and the /create-payment-intent requests
SpecPayment == Init /\ [][NextLifespan \/ NextPayment]_vars

\* the context builder on every history within the bounds
SpecContext == InitContext /\ [][NextContext]_vars

\* ===================================================================== claims
HasFailed(trace) == \E i \in 1..Len(trace) : trace[i].error
HasSucceeded(trace) == \E i \in 1..Len(trace) : ~trace[i].error
Raised(q) == q.orch = "raised" \/ q.synth = "raised"

\* C1: in every request the synthesizer run starts only after the orchestrator
\* run has completed (the two never run at the same time), the synthesizer's
\* input is the query followed by the orchestrator's accumulated trace, and a
\* Response is returned only once the synthesizer has completed.
C1_OrchestratorThenSynthesizer ==
    \A r \in Requests :
        /\ req[r].synth # "idle" => req[r].orch = "done"
        /\ req[r].orch = "running" => req[r].synth = "idle"
        /\ req[r].synth = "running" =>
               req[r].synth_input = <<[input |-> QueryText]>> \o req[r].trace
        /\ req[r].result.status = 200 => req[r].synth = "done"

C1_Witness ==
    \E r \in Requests :
        /\ req[r].synth = "running"
        /\ Len(req[r].trace) = 2
        /\ Len(req[r].synth_input) = 3

\* C2 as stated: every failure of a request, a validation failure included,
\* is reported with status 500; a request ends as a complete Response or as
\* that failure result, never as a partial Response.
C2_AsStated ==
    \A r \in Requests :
        /\ req[r].result.status \in {0, 200, 500}
        /\ (req[r].validation = "failed" \/ Raised(req[r])) =>
               req[r].result.status = 500
        /\ req[r].result.status = 200 =>
               req[r].synth = "done" /\ req[r].result.response = "synthesizer_output"

\* C2 as amended: a failure of the execution (a run that raises) is reported
\* with status 500 and nothing else is; a body that fails validation is
\* answered 422 without the handler running; a 200 carries the synthesizer's
\* output; a result, once given, never changes.
C2_FailureIsOneResult ==
    /\ [](\A r \in Requests :
            /\ req[r].result.status \in {0, 200, 422, 500}
            /\ Raised(req[r]) <=> req[r].result.status = 500
            /\ req[r].validation = "failed" <=> req[r].result.status = 422
            /\ req[r].validation = "failed" =>
                   req[r].orch = "idle" /\ req[r].synth = "idle"
            /\ req[r].result.status = 200 <=> req[r].synth = "done"
            /\ req[r].result.status = 200 =>
                   /\ req[r].result.response = "synthesizer_output"
                   /\ req[r].result.trace_id = r)
    /\ [][\A r \in Requests :
            req[r].result.status # 0 => req'[r].result = req[r].result]_vars

C2_Witness ==
    \E r1, r2 \in Requests :
        /\ req[r1].result.status = 500 /\ req[r1].synth = "raised"
        /\ Len(req[r1].trace) > 0
        /\ req[r2].result.status = 422

\* C3: however the startup triggers interleave, at most one MCPServerStdio is
\* constructed, connect() is called at most once, and at most one trigger is
\* inside the initialisation section (which it is only while holding the lock).
InSection(t) == lpc[t] \in {"locked", "connecting"}

C3_InitialisedOnce ==
    /\ constructed <= 1
    /\ connect_calls <= 1
    /\ \A t1, t2 \in Triggers : InSection(t1) /\ InSection(t2) => t1 = t2
    /\ \A t \in Triggers : InSection(t) => server_lock = t

C3_Witness ==
    \E t1, t2 \in Triggers :
        /\ t1 # t2
        /\ lpc[t1] = "serving" /\ lpc[t2] = "serving"
        /\ constructed = 1 /\ connect_calls = 1
        /\ server_state = "connected"

\* ---- lines of a text
RECURSIVE FirstBreak(_, _)
FirstBreak(s, i) ==
    IF i > Len(s) THEN 0 ELSE IF s[i] = NL THEN i ELSE FirstBreak(s, i + 1)

\* the lines of s, a line ending at each line break
RECURSIVE Lines(_)
Lines(s) ==
    IF s = <<>> THEN <<>>
    ELSE LET i == FirstBreak(s, 1)
         IN  IF i = 0 THEN <<s>>
             ELSE <<SubSeq(s, 1, i - 1)>> \o Lines(SubSeq(s, i + 1, Len(s)))

\* `role: content`
EntryText(msg) == msg.role \o <<":", " ">> \o msg.content

Breaks(s) == Cardinality({i \in 1..Len(s) : s[i] = NL})

RECURSIVE BreaksIn(_)
BreaksIn(hist) ==
    IF hist = <<>> THEN 0
    ELSE Breaks(EntryText(Head(hist))) + BreaksIn(Tail(hist))

\* the lines of the entries, each entry taken with the line break that ends it
RECURSIVE EntryLines(_)
EntryLines(hist) ==
    IF hist = <<>> THEN <<>>
    ELSE Lines(EntryText(Head(hist)) \o <<NL>>) \o EntryLines(Tail(hist))

\* the two lines the header puts before the entries
HeaderLines == <<<<>>, SubSeq(Header, 2, Len(Header) - 1)>>

\* C4 as stated: the context is empty for an empty history, and for N >= 1
\* entries it holds exactly N formatted lines, the i-th being entry i's
\* `role: content` (they follow the header the code puts first).
C4_AsStated ==
    cpc = "done" =>
        IF history = <<>> THEN conversation_context = <<>>
        ELSE Lines(conversation_context) =
                 HeaderLines \o [i \in 1..Len(history) |-> EntryText(history[i])]

\* C4 as amended: the context is empty exactly for an empty history; for
\* N >= 1 entries it is the header followed by the entries in history order,
\* each `role: content` ended by a line break, so it has the 2 header lines and
\* N + k more, k being the line breaks inside the roles and contents: exactly
\* N formatted lines, one per entry and in order, when these hold none.
C4_ContextLines ==
    cpc = "done" =>
        /\ (conversation_context = <<>>) <=> (history = <<>>)
        /\ history # <<>> =>
            LET lines == Lines(conversation_context)
                N     == Len(history)
            IN  /\ lines = HeaderLines \o EntryLines(history)
                /\ Len(lines) = 2 + N + BreaksIn(history)
                /\ BreaksIn(history) = 0 =>
                       SubSeq(lines, 3, Len(lines)) =
                           [i \in 1..N |-> EntryText(history[i])]

C4_Witness ==
    /\ cpc = "done"
    /\ Len(history) = 2
    /\ history[1].role # history[2].role
    /\ BreaksIn(history) = 0
    /\ Len(Lines(conversation_context)) = 4

\* C5: a /create-payment-intent request that reaches the handler is answered
\* 200 with a PaymentResponse whatever the provider does: success carries a
\* payment id and no error, failure carries an error and no payment id.
C5_PaymentAlwaysAnswers ==
    \A p \in Payments :
        pay[p].validation = "passed" =>
            /\ pay[p].result.status = 200
            /\ pay[p].result.success \in BOOLEAN
            /\ pay[p].result.success =>
                   pay[p].result.payment_id # None /\ pay[p].result.error = None
            /\ ~pay[p].result.success =>
                   pay[p].result.payment_id = None /\ pay[p].result.error # None

C5_Witness ==
    \E p \in Payments :
        /\ pay[p].validation = "passed"
        /\ ~pay[p].result.success
        /\ pay[p].result.error = "error"
        /\ stripe_api_key # None

\* C6: a step of a /query request changes that request's own locals only: no
\* process-wide state (the maps handle, its connection, the lock, the keys),
\* no lifespan, no other request; the handle a request holds is the shared one.
C6_RequestsIsolated ==
    /\ [][\A r \in Requests :
            req'[r] # req[r] =>
                /\ UNCHANGED <<globals, lpc, pay>>
                /\ \A q \in Requests \ {r} : req'[q] = req[q]]_vars
    /\ [](\A r \in Requests : InFlight(r) => req[r].mcp_server = maps_server)

C6_Witness ==
    \E r1, r2 \in Requests :
        /\ req[r1].orch = "running" /\ req[r2].synth = "running"
        /\ req[r1].context # req[r2].context
        /\ req[r1].trace # <<>> /\ req[r2].trace # <<>>
        /\ req[r1].trace # req[r2].trace
        /\ req[r1].mcp_server = "maps" /\ server_state = "connected"

C10_MissingKeyStopsBoot ==
    (~env.STRIPE_SECRET_KEY \/ ~env.GOOGLE_MAPS_API_KEY) =>
        /\ \A p \in Payments : pay[p].validation # "passed"
        /\ \A r \in Requests : req[r].validation # "passed"

\* C11: whatever startups, failed startups and shutdowns the process has gone
\* through, while a /query request is being handled the shared maps handle is
\* set, its connect() has returned and it has not been disconnected since (so
\* no request is handled after a connect() that raised); a shutdown awaits
\* disconnect() only with the handle set, and ends whether it returns or raises.
C11_HandleConnectedWhileHandling ==
    /\ \A r \in Requests :
           InFlight(r) =>
               /\ req[r].mcp_server # None
               /\ req[r].mcp_server = maps_server
               /\ server_state = "connected"
    /\ \A t \in Triggers : lpc[t] = "disconnecting" => maps_server # None

=============================================================================
